---- MODULE Spec2Model ----
(***************************************************************************)
(* A model of the capture-and-convert component, src/src/App.tsx.          *)
(*                                                                         *)
(* The React state of App is one variable per useState hook.  The two      *)
(* asynchronous handlers, captureImage and processConversion, are split at *)
(* their awaits: the part up to the first await is one action (the click), *)
(* and each later await is an action that resumes the handler with the     *)
(* promise's outcome (resolved or rejected).  Several runs of a handler    *)
(* can be suspended at once, so each suspended run is an entry of          *)
(* `captures` or `conversions`; a run that has ended leaves the sequence.  *)
(*                                                                         *)
(* Texts are sequences of one-character strings, so that the pattern match *)
(* and the normalisation of captureImage can be computed.  A fixed message *)
(* of the program is a one-element sequence holding the whole message.     *)
(* A nullable value is a sequence of length at most one: Null or Some(v).  *)
(***************************************************************************)
EXTENDS Integers, Sequences, FiniteSets, TLC

VARIABLES
    \* useState hooks of App (lines 18-30)
    fromCurrency, toCurrency, isModalOpen, convertedAmount, isProcessing,
    detectedBounds, isVideoPlaying, detectedNumber, showConfirmation,
    pendingAmount, detectedText,
    \* the component and its camera (lines 65-76, 228-236)
    mounted,        \* the component is mounted (videoRef.current is set)
    acquisition,    \* the getUserMedia promise: "pending", "resolved", "rejected"
    srcObject,      \* videoRef.current.srcObject holds the stream
    streamLive,     \* the acquired stream has tracks that were not stopped
    stops,          \* number of times the tracks were stopped
    \* the DOM elements behind videoRef and canvasRef (lines 23-24)
    rendered,       \* offsetWidth x offsetHeight of the video element
    frame,          \* a pixel of the picture the video element shows
    imageData,      \* a pixel of the hidden canvas (imageData.data)
    \* suspended runs of the asynchronous handlers
    captures,       \* suspended runs of captureImage, in the order they started
    started,        \* number of runs of captureImage that reached the try block
    orphans,        \* OCR workers that are live although their run has ended
    conversions,    \* suspended runs of processConversion, in the order they started
    requested,      \* number of conversion requests sent
    escaped         \* the last step threw an error past its handler

uiVars == <<fromCurrency, toCurrency, isModalOpen, convertedAmount, isProcessing,
            detectedBounds, isVideoPlaying, detectedNumber, showConfirmation,
            pendingAmount, detectedText>>

camVars == <<mounted, acquisition, srcObject, streamLive, stops>>

runVars == <<captures, started, orphans, conversions, requested>>

domVars == <<rendered, frame, imageData>>

vars == <<uiVars, camVars, domVars, runVars, escaped>>

----------------------------------------------------------------------------
(* Bounds of the model *)

\* number of captureImage runs in one behaviour
MaxCaptures == 2

\* number of processConversion runs in one behaviour
MaxConversions == 2

----------------------------------------------------------------------------
(* Nullable values *)

Null == <<>>

Some(v) == <<v>>

\* JavaScript truthiness of a nullable string: neither null nor ""
Truthy(s) == s # Null /\ s[1] # <<>>

----------------------------------------------------------------------------
(* The currency list, lines 8-15 *)

currencies == << "USD", "EUR", "GBP", "JPY", "AUD", "PHP" >>

\* the entries of the list the user picks from in this model
Selectable == { currencies[1], currencies[6] }

----------------------------------------------------------------------------
(* Texts and the price pattern of captureImage, lines 167-189 *)

Digit == { "0", "1", "2", "3", "4", "5", "6", "7", "8", "9" }

\* [\$\€\£\¥\₱]
CurrencySymbol == { "$", "€", "£", "¥", "₱" }

\* \s, over the characters of the model
WhiteSpace == { " " }

IsDigitAt(t, k) == k \in 1..Len(t) /\ t[k] \in Digit

\* \s* from position k: the position after the longest run of white space
RECURSIVE SkipSpaces(_, _)
SkipSpaces(t, k) ==
    IF k \in 1..Len(t) /\ t[k] \in WhiteSpace THEN SkipSpaces(t, k + 1) ELSE k

\* [\$\€\£\¥\₱]? from position k
SkipSymbol(t, k) ==
    IF k \in 1..Len(t) /\ t[k] \in CurrencySymbol THEN k + 1 ELSE k

\* (?:,\d{3})* from position k
RECURSIVE SkipGroups(_, _)
SkipGroups(t, k) ==
    IF /\ k \in 1..Len(t) /\ t[k] = ","
       /\ IsDigitAt(t, k + 1) /\ IsDigitAt(t, k + 2) /\ IsDigitAt(t, k + 3)
    THEN SkipGroups(t, k + 4)
    ELSE k

\* (?:\.\d{2})? from position k
SkipDecimals(t, k) ==
    IF /\ k \in 1..Len(t) /\ t[k] = "."
       /\ IsDigitAt(t, k + 1) /\ IsDigitAt(t, k + 2)
    THEN k + 3
    ELSE k

\* \d{1,3}(?:,\d{3})*(?:\.\d{2})? from position k, where t[k] is a digit:
\* every quantifier is greedy and nothing that follows can fail, so the
\* match is the longest one
NumberEnd(t, k) ==
    LET d == IF IsDigitAt(t, k + 1)
             THEN (IF IsDigitAt(t, k + 2) THEN k + 3 ELSE k + 2)
             ELSE k + 1
    IN  SkipDecimals(t, SkipGroups(t, d))

\* first alternative, symbol-then-number, from position i: the position
\* after the match, or 0 when it does not match at i
SymbolThenNumber(t, i) ==
    LET k == SkipSpaces(t, SkipSymbol(t, i))
    IN  IF IsDigitAt(t, k) THEN NumberEnd(t, k) ELSE 0

\* second alternative, number-then-symbol, from position i
NumberThenSymbol(t, i) ==
    IF IsDigitAt(t, i)
    THEN SkipSymbol(t, SkipSpaces(t, NumberEnd(t, i)))
    ELSE 0

\* the alternatives are tried in order at each position
MatchEnd(t, i) ==
    IF SymbolThenNumber(t, i) # 0 THEN SymbolThenNumber(t, i)
    ELSE NumberThenSymbol(t, i)

\* data.text.match(currencyPattern): the leftmost match, numberMatch[0], or Null
currencyPattern(t) ==
    LET starts == { i \in 1..Len(t) : MatchEnd(t, i) # 0 }
    IN  IF starts = {} THEN Null
        ELSE LET i == CHOOSE s \in starts : \A r \in starts : s <= r
             IN  Some(SubSeq(t, i, MatchEnd(t, i) - 1))

\* String.prototype.includes
Includes(hay, needle) ==
    \E k \in 0..(Len(hay) - Len(needle)) : SubSeq(hay, k + 1, k + Len(needle)) = needle

\* replace(/[,\s]/g, '')
StripSeparators(t) == SelectSeq(t, LAMBDA c : c \notin ({ "," } \cup WhiteSpace))

\* a replace that deletes the symbols and the white space only
cleanNumberKeepsCommas(t) == SelectSeq(t, LAMBDA c : c \notin (CurrencySymbol \cup WhiteSpace))

\* replace(/[^\d.]/g, '')
cleanNumber(t) == SelectSeq(t, LAMBDA c : c \in (Digit \cup { "." }))

\* the predicate of data.words.find, lines 171-174
WordMatches(word, m) ==
    \/ Includes(word.text, m)
    \/ Includes(StripSeparators(word.text), StripSeparators(m))

\* data.words.find(...): the first word that matches, or Null
matchedWord(words, m) ==
    LET hits == { k \in 1..Len(words) : WordMatches(words[k], m) }
    IN  IF hits = {} THEN Null
        ELSE Some(words[CHOOSE k \in hits : \A r \in hits : k <= r])

----------------------------------------------------------------------------
(* Number formatting *)

DigitChars == << "0", "1", "2", "3", "4", "5", "6", "7", "8", "9" >>

\* the decimal digits of a natural number
RECURSIVE NatToChars(_)
NatToChars(n) ==
    IF n < 10 THEN << DigitChars[n + 1] >>
    ELSE Append(NatToChars(n \div 10), DigitChars[(n % 10) + 1])

\* Number.prototype.toFixed(2) of v thousandths: the nearest hundredth, the
\* larger one when two are equally near.  (A binary double next to a tie may
\* lie on either side of it, so the inputs of the model hold no value that
\* ends in 5 thousandths.)
toFixed2(v) ==
    LET cents == (v + 5) \div 10
    IN  NatToChars(cents \div 100)
          \o << ".", DigitChars[((cents \div 10) % 10) + 1], DigitChars[(cents % 10) + 1] >>

----------------------------------------------------------------------------
(* Inputs of the model: what the browser, the OCR engine and the rate      *)
(* service hand to the program                                             *)

\* video.videoWidth x video.videoHeight of a playing camera stream, and the
\* rendered size of the video element (offsetWidth x offsetHeight)
StreamSize == [width |-> 4, height |-> 4]

RenderedSize == [width |-> 8, height |-> 12]

\* the rendered size after the window was resized or the device rotated
ResizedSize == [width |-> 4, height |-> 8]

RenderedSizes == { RenderedSize, ResizedSize }

\* video.videoWidth and video.videoHeight are 0 while the element has no stream
VideoSize == IF srcObject THEN StreamSize ELSE [width |-> 0, height |-> 0]

----------------------------------------------------------------------------
(* preprocessImage, lines 32-63, on one pixel.  The channels of ImageData  *)
(* are integers 0..255, so the grey level is a whole number of thousandths *)
(* and the contrast arithmetic is done on exact fractions.                 *)

\* const contrast = 1.5 (line 50)
contrast == [num |-> 3, den |-> 2]

\* (259 * (contrast + 255)) / (255 * (259 - contrast)), line 51
factor ==
    [num |-> 259 * (contrast.num + 255 * contrast.den),
     den |-> 255 * (259 * contrast.den - contrast.num)]

\* 0.299 * r + 0.587 * g + 0.114 * b, in thousandths (line 45)
gray(p) == 299 * p.r + 587 * p.g + 114 * p.b

Sign(n) == IF n > 0 THEN 1 ELSE IF n < 0 THEN 0 - 1 ELSE 0

\* factor * (gray - 128) + 128 (line 52), kept as the sum 128 + excess with
\* excess = (factor.num * thousandths) / (factor.den * 1000)
newValue(g) == [factor |-> factor, thousandths |-> g - 128000]

\* the sign of newValue - 128
Excess(nv) == Sign(nv.factor.num) * Sign(nv.factor.den) * Sign(nv.thousandths)

\* newValue > 128 ? 255 : 0 (line 55)
finalInclusive(nv) == IF Excess(nv) >= 0 THEN 255 ELSE 0

final(nv) == IF Excess(nv) > 0 THEN 255 ELSE 0

\* data[i], data[i + 1], data[i + 2] are assigned; data[i + 3] is not
\* (lines 57-59)
preprocessPixelSkipBlue(p) ==
    LET f == final(newValue(gray(p)))
    IN  [r |-> f, g |-> f, b |-> p.b, a |-> p.a]

preprocessPixel(p) ==
    LET f == final(newValue(gray(p)))
    IN  [r |-> f, g |-> f, b |-> f, a |-> p.a]

\* a pixel of a canvas nothing was drawn on, and a pixel of a camera frame
BlankPixel == [r |-> 0, g |-> 0, b |-> 0, a |-> 0]

FramePixel == [r |-> 200, g |-> 180, b |-> 160, a |-> 255]

\* results of worker.recognize: the full text and the words with their boxes
PriceData ==
    [ text  |-> << "$", "1", "2", ".", "5", "0" >>,
      words |-> << [ text |-> << "$", "1", "2", ".", "5", "0" >>,
                     bbox |-> [x0 |-> 1, y0 |-> 1, x1 |-> 3, y1 |-> 2] ] >> ]

SplitData ==
    [ text  |-> << "7", " ", "€" >>,
      words |-> << [ text |-> << "€" >>, bbox |-> [x0 |-> 2, y0 |-> 3, x1 |-> 3, y1 |-> 4] ] >> ]

NoPriceData ==
    [ text  |-> << ".", "," >>,
      words |-> << [ text |-> << ".", "," >>, bbox |-> [x0 |-> 0, y0 |-> 0, x1 |-> 1, y1 |-> 1] ] >> ]

RecognitionResults == { PriceData, SplitData, NoPriceData }

\* amounts the rate service returns, in thousandths
RateValues == { 0, 11484 }

\* the rates object of a response: a set of <<currency code, value>> entries
RateTables ==
    { {} } \cup { { <<c, v>> } : c \in Selectable, v \in RateValues }

\* outcomes of axios.get: a rejection, or a response whose data or whose
\* data.rates may be missing
Responses ==
    { [ok |-> FALSE, data |-> Null],
      [ok |-> TRUE,  data |-> Null],
      [ok |-> TRUE,  data |-> Some([rates |-> Null])] }
    \cup { [ok |-> TRUE, data |-> Some([rates |-> Some(r)])] : r \in RateTables }

\* rates[code]: the value under the key, or Null (undefined)
RateOf(rates, code) ==
    IF \E e \in rates : e[1] = code
    THEN Some((CHOOSE e \in rates : e[1] = code)[2])
    ELSE Null

----------------------------------------------------------------------------
(* Messages shown by the program *)

NoPriceFound == << "No price found. Please try again." >>

ErrorProcessingImage == << "Error processing image. Please try again." >>

ConversionFailed == << "Conversion failed. Please try again." >>

FailureMessages == { NoPriceFound, ErrorProcessingImage, ConversionFailed }

----------------------------------------------------------------------------
(* Initial state: the component has rendered once and its mount effect has *)
(* called startCamera (lines 18-30, 228-229)                               *)

\* a run of captureImage that has just reached its first await
NewCapture == [pc |-> "createWorker", cancelled |-> FALSE, worker |-> "none", data |-> Null]

\* a sequence without its i-th entry
Remove(seq, i) == SubSeq(seq, 1, i - 1) \o SubSeq(seq, i + 1, Len(seq))

\* the runs that are suspended when resetCamera is called are marked: the
\* program keeps no such mark, it is recorded for the properties only
MarkCancelled(seq) == [i \in 1..Len(seq) |-> [seq[i] EXCEPT !.cancelled = TRUE]]

Init ==
    /\ fromCurrency = currencies[6]
    /\ toCurrency = currencies[1]
    /\ isModalOpen = FALSE
    /\ convertedAmount = Null
    /\ isProcessing = FALSE
    /\ detectedBounds = Null
    /\ isVideoPlaying = TRUE
    /\ detectedNumber = Null
    /\ showConfirmation = FALSE
    /\ pendingAmount = Null
    /\ detectedText = Null
    /\ mounted = TRUE
    /\ acquisition = "pending"
    /\ srcObject = FALSE
    /\ streamLive = FALSE
    /\ stops = 0
    /\ captures = <<>>
    /\ started = 0
    /\ orphans = 0
    /\ conversions = <<>>
    /\ requested = 0
    /\ escaped = FALSE
    /\ rendered = RenderedSize
    /\ frame = FramePixel
    /\ imageData = BlankPixel

----------------------------------------------------------------------------
(* The camera: startCamera and the cleanup of the mount effect *)

\* getUserMedia resolves (lines 67-72): the stream is attached to the video
\* element if the element is still there
GetUserMediaResolve ==
    /\ acquisition = "pending"
    /\ acquisition' = "resolved"
    /\ streamLive' = TRUE
    /\ srcObject' = mounted
    /\ escaped' = FALSE
    /\ UNCHANGED <<uiVars, mounted, stops, domVars, runVars>>

\* getUserMedia rejects (lines 73-75): the error is logged
GetUserMediaReject ==
    /\ acquisition = "pending"
    /\ acquisition' = "rejected"
    /\ escaped' = FALSE
    /\ UNCHANGED <<uiVars, mounted, srcObject, streamLive, stops, domVars, runVars>>

\* The component unmounts and the effect's cleanup runs (lines 230-235).
\* Whether videoRef.current is still set when the cleanup reads it depends
\* on when the renderer detaches refs, so both outcomes are modelled.  The
\* state of the hooks goes with the component, and so does the element.
Dispose ==
    /\ mounted
    /\ mounted' = FALSE
    /\ \E refSet \in BOOLEAN :
         IF refSet /\ srcObject
         THEN streamLive' = FALSE /\ stops' = stops + 1
         ELSE UNCHANGED <<streamLive, stops>>
    /\ fromCurrency' = currencies[6]
    /\ toCurrency' = currencies[1]
    /\ isModalOpen' = FALSE
    /\ convertedAmount' = Null
    /\ isProcessing' = FALSE
    /\ detectedBounds' = Null
    /\ isVideoPlaying' = TRUE
    /\ detectedNumber' = Null
    /\ showConfirmation' = FALSE
    /\ pendingAmount' = Null
    /\ detectedText' = Null
    /\ escaped' = FALSE
    /\ rendered' = RenderedSize
    /\ imageData' = BlankPixel
    /\ UNCHANGED <<acquisition, srcObject, frame, runVars>>

\* The window is resized or the device rotated: the video element is laid
\* out again (className "w-full h-full", line 319).  No handler of the
\* component listens to it.
Resize(size) ==
    /\ mounted
    /\ size # rendered
    /\ rendered' = size
    /\ escaped' = FALSE
    /\ UNCHANGED <<uiVars, camVars, frame, imageData, runVars>>

----------------------------------------------------------------------------
(* The controls *)

\* Listbox onChange, line 247
SetFromCurrency(c) ==
    /\ mounted
    /\ c # fromCurrency
    /\ fromCurrency' = c
    /\ escaped' = FALSE
    /\ UNCHANGED <<toCurrency, isModalOpen, convertedAmount, isProcessing,
                   detectedBounds, isVideoPlaying, detectedNumber, showConfirmation,
                   pendingAmount, detectedText, camVars, domVars, runVars>>

\* Listbox onChange, line 275
SetToCurrency(c) ==
    /\ mounted
    /\ c # toCurrency
    /\ toCurrency' = c
    /\ escaped' = FALSE
    /\ UNCHANGED <<fromCurrency, isModalOpen, convertedAmount, isProcessing,
                   detectedBounds, isVideoPlaying, detectedNumber, showConfirmation,
                   pendingAmount, detectedText, camVars, domVars, runVars>>

\* the Capture & Convert button is enabled (line 344)
CaptureEnabled == mounted /\ ~(isProcessing \/ ~isVideoPlaying)

\* a button that calls resetCamera is rendered: Reset Camera (line 308),
\* Close (line 352), Cancel or Try Again (line 376)
ResetRendered == mounted /\ (~isVideoPlaying \/ isModalOpen \/ showConfirmation)

\* the Convert button is rendered (lines 376, 385)
ConvertRendered == mounted /\ showConfirmation /\ Truthy(pendingAmount)

\* resetCamera, lines 210-226
ResetCamera ==
    /\ ResetRendered
    /\ isVideoPlaying' = TRUE
    /\ detectedBounds' = Null
    /\ isModalOpen' = FALSE
    /\ showConfirmation' = FALSE
    /\ pendingAmount' = Null
    /\ detectedText' = Null
    /\ detectedNumber' = Null
    /\ convertedAmount' = Null
    /\ isProcessing' = FALSE
    /\ captures' = MarkCancelled(captures)
    /\ conversions' = MarkCancelled(conversions)
    /\ escaped' = FALSE
    /\ UNCHANGED <<fromCurrency, toCurrency, camVars, domVars, started, orphans, requested>>

----------------------------------------------------------------------------
(* captureImage, lines 110-208 *)

\* ctx.getImageData(0, 0, canvas.width, canvas.height), line 37, throws an
\* IndexSizeError when the canvas has no pixels
preprocessThrows(canvas) == canvas.width = 0 \/ canvas.height = 0

\* the box of a word rescaled to the rendered video element, lines 177-187
\* (the sizes of the model make the divisions exact)
ScaledBounds(bbox, canvas, element) ==
    [ x      |-> (bbox.x0 * element.width) \div canvas.width,
      y      |-> (bbox.y0 * element.height) \div canvas.height,
      width  |-> ((bbox.x1 - bbox.x0) * element.width) \div canvas.width,
      height |-> ((bbox.y1 - bbox.y0) * element.height) \div canvas.height ]

\* The click on Capture & Convert: captureImage up to its first await.  The
\* frame is drawn on the canvas and preprocessed in place (lines 126-130).
\* Lines 111-130 run outside the try block, so an error of preprocessImage
\* leaves the handler after the video has been paused.
CaptureImage ==
    /\ CaptureEnabled
    /\ isVideoPlaying' = FALSE
    /\ IF preprocessThrows(VideoSize)
       THEN /\ escaped' = TRUE
            /\ UNCHANGED <<isProcessing, detectedNumber, pendingAmount,
                           showConfirmation, captures, started, imageData>>
       ELSE /\ started < MaxCaptures
            /\ escaped' = FALSE
            /\ imageData' = preprocessPixel(frame)
            /\ isProcessing' = TRUE
            /\ detectedNumber' = Null
            /\ pendingAmount' = Null
            /\ showConfirmation' = FALSE
            /\ captures' = Append(captures, NewCapture)
            /\ started' = started + 1
    /\ UNCHANGED <<fromCurrency, toCurrency, isModalOpen, convertedAmount,
                   detectedBounds, detectedText, camVars, rendered, frame,
                   orphans, conversions, requested>>

\* the awaits of the worker's set-up, in order (lines 139-151), and the call
\* that follows each
NextCall(pc) ==
    CASE pc = "createWorker"  -> "loadLanguage"
      [] pc = "loadLanguage"  -> "initialize"
      [] pc = "initialize"    -> "setParameters"
      [] pc = "setParameters" -> "recognize"

\* An await of lines 139-151 resolves and the next call is made;
\* createWorker hands over the worker.
CaptureAdvance(i) ==
    /\ i \in 1..Len(captures)
    /\ captures[i].pc \in { "createWorker", "loadLanguage", "initialize", "setParameters" }
    /\ captures' = [captures EXCEPT ![i].pc = NextCall(captures[i].pc),
                                    ![i].worker = "live"]
    /\ escaped' = FALSE
    /\ UNCHANGED <<uiVars, camVars, domVars, started, orphans, conversions, requested>>

\* worker.recognize resolves with its result and worker.terminate() is
\* called (lines 155-164)
Recognized(i, d) ==
    /\ i \in 1..Len(captures)
    /\ captures[i].pc = "recognize"
    /\ captures' = [captures EXCEPT ![i].pc = "terminate", ![i].data = Some(d)]
    /\ escaped' = FALSE
    /\ UNCHANGED <<uiVars, camVars, domVars, started, orphans, conversions, requested>>

\* An await of the try block rejects: the catch and finally blocks run
\* (lines 201-207) and the run ends; its worker, if it has one, stays as it
\* is.  The state of an unmounted component is not updated.
CaptureFail(i) ==
    /\ i \in 1..Len(captures)
    /\ captures' = Remove(captures, i)
    /\ orphans' = IF captures[i].worker = "live" THEN orphans + 1 ELSE orphans
    /\ IF mounted
       THEN /\ showConfirmation' = TRUE
            /\ detectedText' = Some(ErrorProcessingImage)
            /\ isProcessing' = FALSE
       ELSE UNCHANGED <<showConfirmation, detectedText, isProcessing>>
    /\ escaped' = FALSE
    /\ UNCHANGED <<fromCurrency, toCurrency, isModalOpen, convertedAmount,
                   detectedBounds, isVideoPlaying, detectedNumber, pendingAmount,
                   camVars, domVars, started, conversions, requested>>

\* worker.terminate() resolves and the rest of the try block runs with the
\* result of recognize (lines 164-200), then the finally block (line 206),
\* and the run ends
CaptureSettle(i) ==
    /\ i \in 1..Len(captures)
    /\ captures[i].pc = "terminate"
    /\ captures' = Remove(captures, i)
    /\ LET data        == captures[i].data[1]
           numberMatch == currencyPattern(data.text)
           word        == IF numberMatch # Null /\ Len(data.words) > 0
                          THEN matchedWord(data.words, numberMatch[1])
                          ELSE Null
       IN  IF ~mounted
           THEN UNCHANGED <<detectedBounds, detectedText, pendingAmount,
                            showConfirmation, isProcessing>>
           ELSE IF word # Null
           THEN /\ detectedBounds' = Some(ScaledBounds(word[1].bbox, StreamSize, rendered))
                /\ detectedText' = Some(numberMatch[1])
                /\ pendingAmount' = Some(cleanNumber(numberMatch[1]))
                /\ showConfirmation' = TRUE
                /\ isProcessing' = FALSE
           ELSE /\ showConfirmation' = TRUE
                /\ detectedText' = Some(NoPriceFound)
                /\ isProcessing' = FALSE
                /\ UNCHANGED <<detectedBounds, pendingAmount>>
    /\ escaped' = FALSE
    /\ UNCHANGED <<fromCurrency, toCurrency, isModalOpen, convertedAmount,
                   isVideoPlaying, detectedNumber, camVars, domVars, started,
                   orphans, conversions, requested>>

----------------------------------------------------------------------------
(* processConversion, lines 78-108 *)

\* the request of line 87 with the two currency codes exchanged
ConversionRequestSwapped(amount, from, to) == [from |-> to, to |-> from, amount |-> amount]

\* the request of line 87: the query parameters from, to and amount
ConversionRequest(amount, from, to) == [from |-> from, to |-> to, amount |-> amount]

\* The click on Convert: processConversion up to its await.  The handler
\* closes over the state of the render that showed the button.
ProcessConversion ==
    /\ ConvertRendered
    /\ requested < MaxConversions
    /\ Truthy(pendingAmount)                                    \* line 79
    /\ showConfirmation' = FALSE
    /\ isProcessing' = TRUE
    /\ conversions' = Append(conversions,
          [ cancelled |-> FALSE,
            request   |-> ConversionRequest(pendingAmount[1], fromCurrency, toCurrency) ])
    /\ requested' = requested + 1
    /\ escaped' = FALSE
    /\ UNCHANGED <<fromCurrency, toCurrency, isModalOpen, convertedAmount,
                   detectedBounds, isVideoPlaying, detectedNumber, pendingAmount,
                   detectedText, camVars, domVars, captures, started, orphans>>

\* the value the handler reads from a response (lines 90-91), or Null when
\* the handler throws: data or data.rates missing, or the value under the
\* target currency falsy (undefined or 0)
convertedValue(response, to) ==
    IF ~response.ok \/ response.data = Null THEN Null
    ELSE IF response.data[1].rates = Null THEN Null
    ELSE LET v == RateOf(response.data[1].rates[1], to)
         IN  IF v # Null /\ v[1] # 0 THEN v ELSE Null

\* axios.get settles and the handler resumes (lines 89-107), and the run
\* ends; toCurrency is the one the handler closed over, the one of the
\* request
ConversionSettle(i, response) ==
    /\ i \in 1..Len(conversions)
    /\ conversions' = Remove(conversions, i)
    /\ LET to == conversions[i].request.to
           v  == convertedValue(response, to)
       IN  IF ~mounted
           THEN UNCHANGED <<convertedAmount, isModalOpen, detectedText,
                            showConfirmation, isProcessing>>
           ELSE IF v # Null
           THEN /\ convertedAmount' = Some(<< to, " " >> \o toFixed2(v[1]))
                /\ isModalOpen' = TRUE
                /\ isProcessing' = FALSE
                /\ UNCHANGED <<detectedText, showConfirmation>>
           ELSE /\ detectedText' = Some(ConversionFailed)
                /\ showConfirmation' = TRUE
                /\ isProcessing' = FALSE
                /\ UNCHANGED <<convertedAmount, isModalOpen>>
    /\ escaped' = FALSE
    /\ UNCHANGED <<fromCurrency, toCurrency, detectedBounds, isVideoPlaying,
                   detectedNumber, pendingAmount, camVars, domVars, captures,
                   started, orphans, requested>>

----------------------------------------------------------------------------
(* The specification *)

Next ==
    \/ GetUserMediaResolve
    \/ GetUserMediaReject
    \/ Dispose
    \/ \E size \in RenderedSizes : Resize(size)
    \/ \E c \in Selectable : SetFromCurrency(c)
    \/ \E c \in Selectable : SetToCurrency(c)
    \/ ResetCamera
    \/ CaptureImage
    \/ \E i \in 1..MaxCaptures : CaptureAdvance(i)
    \/ \E i \in 1..MaxCaptures, d \in RecognitionResults : Recognized(i, d)
    \/ \E i \in 1..MaxCaptures : CaptureFail(i)
    \/ \E i \in 1..MaxCaptures : CaptureSettle(i)
    \/ ProcessConversion
    \/ \E i \in 1..MaxConversions, r \in Responses : ConversionSettle(i, r)

Spec == Init /\ [][Next]_vars

\* the suspended run i of captureImage takes its next step: the promise it
\* awaits resolves or rejects
CaptureStep(i) ==
    \/ CaptureAdvance(i)
    \/ \E d \in RecognitionResults : Recognized(i, d)
    \/ CaptureFail(i)
    \/ CaptureSettle(i)

\* the request of the suspended run i of processConversion resolves or rejects
ConversionStep(i) == \E r \in Responses : ConversionSettle(i, r)

\* every call that was started settles, and the handler that awaits it is
\* resumed; nothing is assumed about what the user does
Fairness ==
    /\ \A i \in 1..MaxCaptures : WF_vars(CaptureStep(i))
    /\ \A i \in 1..MaxConversions : WF_vars(ConversionStep(i))

SpecFair == Spec /\ Fairness

----------------------------------------------------------------------------
(* preprocessImage over the pixels of a frame: the camera is acquired, the *)
(* video shows some picture, and the user captures it.                     *)

\* channel values of the frames: the ends of the range, values around 128
\* and the channels of triples with 299 r + 587 g + 114 b = 128000
ChannelLevels == { 0, 1, 4, 31, 32, 127, 128, 129, 147, 148, 189, 190, 210, 255 }

AlphaLevels == { 0, 128, 255 }

Pixels ==
    [r : ChannelLevels, g : ChannelLevels, b : ChannelLevels, a : AlphaLevels]

\* the state after getUserMedia resolved, with one of the pictures
InitPreprocess ==
    /\ fromCurrency = currencies[6]
    /\ toCurrency = currencies[1]
    /\ isModalOpen = FALSE
    /\ convertedAmount = Null
    /\ isProcessing = FALSE
    /\ detectedBounds = Null
    /\ isVideoPlaying = TRUE
    /\ detectedNumber = Null
    /\ showConfirmation = FALSE
    /\ pendingAmount = Null
    /\ detectedText = Null
    /\ mounted = TRUE
    /\ acquisition = "resolved"
    /\ srcObject = TRUE
    /\ streamLive = TRUE
    /\ stops = 0
    /\ captures = <<>>
    /\ started = 0
    /\ orphans = 0
    /\ conversions = <<>>
    /\ requested = 0
    /\ escaped = FALSE
    /\ rendered = RenderedSize
    /\ frame \in Pixels
    /\ imageData = BlankPixel

NextPreprocess == CaptureImage

SpecPreprocess == InitPreprocess /\ [][NextPreprocess]_vars

----------------------------------------------------------------------------
(* The session states of the specification, read off the rendered state *)

\* the video is playing, nothing is being processed, no dialog is open and
\* no earlier capture is unresolved
Idle ==
    /\ mounted /\ isVideoPlaying /\ ~isProcessing
    /\ ~showConfirmation /\ ~isModalOpen
    /\ captures = <<>>

\* the dialog is open and carries a failure reason
Failed ==
    /\ mounted /\ showConfirmation
    /\ detectedText # Null /\ detectedText[1] \in FailureMessages

\* the suspended run i of captureImage ends in this step
CaptureEnds(i) == CaptureFail(i) \/ CaptureSettle(i)

\* the suspended run i of processConversion ends in this step
ConversionEnds(i) == \E r \in Responses : ConversionSettle(i, r)

\* the suspended run i of processConversion ends in this step with a failed
\* conversion
ConversionFails(i) ==
    \E r \in Responses :
        /\ ConversionSettle(i, r)
        /\ convertedValue(r, conversions[i].request.to) = Null

\* the requests that are outstanding
Outstanding == { conversions[i].request : i \in 1..Len(conversions) }

----------------------------------------------------------------------------
(* The extraction of captureImage over recognized texts: one run is        *)
(* suspended at worker.recognize, which resolves with a text and its words. *)

\* longest text that is enumerated
MaxTextLen == 5

\* digits, '.', ',', space, a currency symbol and a letter
TextAlphabet == { "1", ".", ",", " ", "$", "a" }

ShortTexts == UNION { [1..n -> TextAlphabet] : n \in 0..MaxTextLen }

\* texts with thousands groups and decimals, and with several matches
LongTexts ==
    { << "$", "1", ",", "1", "1", "1", ".", "1", "1" >>,
      << "1", "1", "1", ",", "1", "1", "1", " ", "$" >>,
      << "a", " ", "$", " ", "1", "1", ".", "1", "1", " ", "a" >>,
      << "a", "1", " ", "$", "1", "1", ".", "1", "1" >>,
      << "1", ".", "1", ".", "1", "1", ".", "1", "1" >> }

\* the position of the first white space of t, or Len(t) + 1
RECURSIVE TokenEnd(_, _)
TokenEnd(t, k) ==
    IF k > Len(t) \/ t[k] \in WhiteSpace THEN k ELSE TokenEnd(t, k + 1)

\* the words of a text: its runs of characters other than white space
RECURSIVE Tokens(_)
Tokens(t) ==
    IF t = <<>> THEN <<>>
    ELSE IF t[1] \in WhiteSpace THEN Tokens(Tail(t))
    ELSE LET n == TokenEnd(t, 1)
         IN  << SubSeq(t, 1, n - 1) >> \o Tokens(SubSeq(t, n, Len(t)))

\* the recognized words of the given texts, each with a box in the frame
Boxed(ts) ==
    [ k \in 1..Len(ts) |->
        [ text |-> ts[k], bbox |-> [x0 |-> k - 1, y0 |-> 1, x1 |-> k, y1 |-> 2] ] ]

\* word lists a recognition of t can carry (data.words): none, one word per
\* run of characters, or the line as one word, with or without its
\* separators
WordLists(t) ==
    { <<>>, Boxed(Tokens(t)) }
    \cup { Boxed(<< w >>) : w \in { t, StripSeparators(t) } \ { <<>> } }

\* the texts a recognition returns (data.text)
Texts == ShortTexts \cup LongTexts

\* the state in which the run of the first capture waits for recognize
InitExtract ==
    /\ fromCurrency = currencies[6]
    /\ toCurrency = currencies[1]
    /\ isModalOpen = FALSE
    /\ convertedAmount = Null
    /\ isProcessing = TRUE
    /\ detectedBounds = Null
    /\ isVideoPlaying = FALSE
    /\ detectedNumber = Null
    /\ showConfirmation = FALSE
    /\ pendingAmount = Null
    /\ detectedText = Null
    /\ mounted = TRUE
    /\ acquisition = "resolved"
    /\ srcObject = TRUE
    /\ streamLive = TRUE
    /\ stops = 0
    /\ captures = << [NewCapture EXCEPT !.pc = "recognize", !.worker = "live"] >>
    /\ started = 1
    /\ orphans = 0
    /\ conversions = <<>>
    /\ requested = 0
    /\ escaped = FALSE
    /\ rendered = RenderedSize
    /\ frame = FramePixel
    /\ imageData = preprocessPixel(FramePixel)

NextExtract ==
    \/ /\ captures # <<>> /\ captures[1].pc = "recognize"
       /\ \E t \in Texts : \E w \in WordLists(t) :
            Recognized(1, [text |-> t, words |-> w])
    \/ CaptureSettle(1)

SpecExtract == InitExtract /\ [][NextExtract]_vars

----------------------------------------------------------------------------
(* Properties *)

\* C1: at most one capture pipeline is in flight at any time, and a capture
\* taken while the session is not Idle starts no new pipeline.
C1_OnePipelineInFlight ==
    [][ /\ Len(captures') <= 1
        /\ (started' > started) => Idle ]_vars

\* C2: a recognize or convert response that completes after the session was
\* reset leaves detectedBounds, pendingAmount, detectedText, convertedAmount,
\* showConfirmation, isModalOpen and isProcessing as they are.
C2_StaleResponseDropped ==
    [][ /\ \A i \in 1..MaxCaptures :
             (CaptureEnds(i) /\ captures[i].cancelled)
             => UNCHANGED <<detectedBounds, pendingAmount, detectedText, convertedAmount,
                            showConfirmation, isModalOpen, isProcessing>>
        /\ \A i \in 1..MaxConversions :
             (ConversionEnds(i) /\ conversions[i].cancelled)
             => UNCHANGED <<detectedBounds, pendingAmount, detectedText, convertedAmount,
                            showConfirmation, isModalOpen, isProcessing>> ]_vars

\* C3: a call that was outstanding when the user reset the session, and that
\* later ends with an error, does not put the session into Failed.
C3_CancelledErrorSwallowed ==
    [][ /\ \A i \in 1..MaxCaptures :
             (CaptureFail(i) /\ captures[i].cancelled) => ~Failed'
        /\ \A i \in 1..MaxConversions :
             (ConversionFails(i) /\ conversions[i].cancelled) => ~Failed' ]_vars

\* C4: a failed conversion puts the session into Failed with a reason, where
\* the Convert button is not offered and a capture cannot be started: the
\* only way on is the reset.
C4_ConversionFailureIsFailed ==
    [][ \A i \in 1..MaxConversions :
          (ConversionFails(i) /\ mounted)
          => (Failed' /\ ~ConvertRendered' /\ ~CaptureEnabled' /\ ResetRendered') ]_vars

\* C5: whenever the session is Idle or Failed, the detection data of the
\* previous cycle is gone: detectedBounds and pendingAmount are null.
C5_DetectionDiscarded ==
    (Idle \/ Failed) => (detectedBounds = Null /\ pendingAmount = Null)

C7_WorkerTerminated == orphans = 0

\* C8: after the component was disposed of and the acquisition has settled,
\* no acquired stream has live tracks, and an acquired stream was stopped
\* exactly once.
C8_CameraReleased ==
    (~mounted /\ acquisition # "pending")
    => (~streamLive /\ (acquisition = "resolved" => stops = 1))

\* C9: no error of a stage escapes its handler, and every error of a stage
\* ends in Failed.
C9_StageErrorsCaught ==
    [][ /\ ~escaped'
        /\ \A i \in 1..MaxCaptures : (CaptureFail(i) /\ mounted) => Failed'
        /\ \A i \in 1..MaxConversions : (ConversionFails(i) /\ mounted) => Failed' ]_vars

\* C10: when the camera acquisition fails, some rendered state changes to
\* show it, and no further acquisition is started.
C10_AcquisitionFailureShown ==
    [][ /\ (acquisition = "pending" /\ acquisition' = "rejected") => uiVars' # uiVars
        /\ acquisition = "rejected" => acquisition' = "rejected" ]_vars

\* the response carries a numeric value under the target currency
NumericRate(response, to) ==
    /\ response.ok /\ response.data # Null
    /\ response.data[1].rates # Null
    /\ RateOf(response.data[1].rates[1], to) # Null

\* C11: a response whose rates hold a numeric value v for the target
\* currency, zero included, opens the result with convertedAmount = the
\* target code, a space and v to two decimals; a conversion fails only when
\* the response holds no such value.
C11_NumericRateSucceeds ==
    [][ \A i \in 1..MaxConversions, r \in Responses :
          (ConversionSettle(i, r) /\ mounted)
          => LET to == conversions[i].request.to
             IN  /\ NumericRate(r, to) =>
                      /\ isModalOpen'
                      /\ convertedAmount' =
                           Some(<< to, " " >> \o toFixed2(RateOf(r.data[1].rates[1], to)[1]))
                 /\ ~NumericRate(r, to) => (showConfirmation' /\ convertedAmount' = convertedAmount) ]_vars

\* the boxes of the words a recognition can return
TokenBoxes ==
    UNION { { d.words[k].bbox : k \in 1..Len(d.words) } : d \in RecognitionResults }

\* C12: a rendered detection box is the box of a recognized word rescaled
\* from the captured frame to the size the video element has now.
C12_BoxFollowsRenderedSize ==
    (mounted /\ detectedBounds # Null)
    => \E bbox \in TokenBoxes :
         detectedBounds[1] = ScaledBounds(bbox, StreamSize, rendered)

\* the text holds a match of the price pattern that no recognized word holds
Untraceable(data) ==
    /\ currencyPattern(data.text) # Null
    /\ matchedWord(data.words, currencyPattern(data.text)[1]) = Null

\* C13: when the text holds a match that no word can be traced to, the run
\* leaves pendingAmount null, sets no detection box and shows the
\* no-price-found failure, not the confirmation prompt.
C13_UntraceableMatchFails ==
    [][ \A i \in 1..MaxCaptures :
          (CaptureSettle(i) /\ mounted /\ Untraceable(captures[i].data[1]))
          => /\ pendingAmount' = Null
             /\ detectedBounds' = detectedBounds
             /\ Failed' /\ detectedText' = Some(NoPriceFound)
             /\ ~ConvertRendered' ]_vars

\* C16: at most one of the processing overlay, the confirmation dialog and
\* the result modal is shown.
C16_OneSessionState ==
    /\ ~(isProcessing /\ showConfirmation)
    /\ ~(isProcessing /\ isModalOpen)
    /\ ~(showConfirmation /\ isModalOpen)

\* C17: a detected amount exists exactly when a detection box exists.
C17_AmountIffBox == (pendingAmount # Null) <=> (detectedBounds # Null)

\* C19: the result shows the amount and the two currency codes of the
\* request that produced it, and keeps showing them while it is open.
C19_ResultShowsItsRequest ==
    [][ /\ \A i \in 1..MaxConversions, r \in Responses :
             ( /\ ConversionSettle(i, r) /\ mounted
               /\ convertedValue(r, conversions[i].request.to) # Null )
             => /\ fromCurrency' = conversions[i].request.from
                /\ convertedAmount'[1][1] = conversions[i].request.to
                /\ detectedText' # Null
                /\ cleanNumber(detectedText'[1]) = conversions[i].request.amount
        /\ (mounted /\ isModalOpen /\ isModalOpen') => fromCurrency' = fromCurrency ]_vars

\* a pixel whose colour channels are all 0 or all 255
Binarized(p) == p.r = p.g /\ p.g = p.b /\ p.r \in { 0, 255 }

\* C15: preprocessImage writes the same value, 0 or 255, to R, G and B and
\* leaves alpha as it was; applied to a pixel that is already binarized it
\* returns the same pixel.
C15_BinarizedAndIdempotent ==
    /\ started > 0 =>
         /\ Binarized(imageData)
         /\ imageData.a = frame.a
         /\ preprocessPixel(imageData) = imageData
    /\ (started > 0 /\ Binarized(frame)) => imageData = frame

\* C15, witness: a coloured, half-transparent pixel was binarized to white
\* with its alpha kept.
C15_Witness ==
    /\ started > 0
    /\ frame = [r |-> 255, g |-> 128, b |-> 0, a |-> 128]
    /\ imageData = [r |-> 255, g |-> 255, b |-> 255, a |-> 128]

\* C20: the output is 255 exactly when 299 R + 587 G + 114 B > 128000, and 0
\* otherwise: the contrast remap does not move the threshold.
C20_ThresholdIsLuma ==
    started > 0 =>
        imageData.r = (IF 299 * frame.r + 587 * frame.g + 114 * frame.b > 128000
                       THEN 255 ELSE 0)

\* C20, witness: a pixel on the threshold (grey level exactly 128) came out
\* black.
C20_Witness ==
    /\ started > 0
    /\ frame = [r |-> 1, g |-> 189, b |-> 147, a |-> 255]
    /\ imageData = [r |-> 0, g |-> 0, b |-> 0, a |-> 255]

\* a non-empty string of digits with at most one decimal point
WellFormedAmount(p) ==
    /\ Len(p) > 0
    /\ \A k \in 1..Len(p) : p[k] \in Digit \cup { "." }
    /\ Cardinality({ k \in 1..Len(p) : p[k] = "." }) <= 1

\* the digits and decimal points of t, in order
DigitsAndPoints(t) == SelectSeq(t, LAMBDA c : c \in Digit \/ c = ".")

\* the text from its first digit on
FromFirstDigit(t) ==
    LET at == { k \in 1..Len(t) : t[k] \in Digit }
    IN  IF at = {} THEN <<>>
        ELSE SubSeq(t, CHOOSE k \in at : \A j \in at : k <= j, Len(t))

IsPrefix(p, t) == Len(p) <= Len(t) /\ SubSeq(t, 1, Len(p)) = p

\* the run accepts a detection: a match and a word that holds it
Accepted(data) ==
    /\ currencyPattern(data.text) # Null
    /\ matchedWord(data.words, currencyPattern(data.text)[1]) # Null

\* C14: the amount an accepted detection stores is a non-empty string of
\* digits with at most one decimal point, it is what is left of the first
\* match of the pattern after every other character is deleted, and the
\* first match is the one that holds the first digit of the text.
C14_AmountIsCleanedFirstMatch ==
    [][ \A i \in 1..MaxCaptures :
          (CaptureSettle(i) /\ mounted)
          => LET data == captures[i].data[1]
             IN  /\ Accepted(data) =>
                      /\ pendingAmount' # Null
                      /\ WellFormedAmount(pendingAmount'[1])
                      /\ pendingAmount'[1] = DigitsAndPoints(currencyPattern(data.text)[1])
                      /\ IsPrefix(pendingAmount'[1], DigitsAndPoints(FromFirstDigit(data.text)))
                 /\ pendingAmount' # Null => WellFormedAmount(pendingAmount'[1]) ]_vars

\* C14, witness: the match "$1,111.11" was accepted and stored as 1111.11.
C14_Witness ==
    /\ showConfirmation /\ captures = <<>>
    /\ detectedText = Some(<< "$", "1", ",", "1", "1", "1", ".", "1", "1" >>)
    /\ pendingAmount = Some(<< "1", "1", "1", "1", ".", "1", "1" >>)
    /\ detectedBounds # Null

\* a dialog the user can act on is shown
DialogShown == mounted /\ (showConfirmation \/ isModalOpen)

\* C18: whenever isProcessing is true it becomes false again, and after a
\* capture (the video is paused) or a confirm (processing) the session
\* reaches a dialog or Idle.
C18_ProcessingEnds ==
    /\ isProcessing ~> ~isProcessing
    /\ (mounted /\ (~isVideoPlaying \/ isProcessing)) ~> (DialogShown \/ Idle \/ ~mounted)

====
